---- MODULE Spec2Model ----
(***************************************************************************)
(* A model of mahjong.py: the scores-file processor file_to_dict (one step *)
(* per line of the file), the report dict_to_csv, and the pure functions   *)
(* base_amount and parse_spec_list.                                        *)
(*                                                                         *)
(* Text is modelled at the level of characters.  A token is a sequence of  *)
(* one-character strings (<<"1","2">> is the text 12), and a line, after   *)
(* the comment and the surrounding whitespace are stripped (lines 325 to   *)
(* 329), is the sequence of its whitespace-separated tokens (<<>> is the   *)
(* empty line).                                                            *)
(***************************************************************************)
EXTENDS Integers, Sequences, FiniteSets, TLC

VARIABLES
  max_faan,       \* file_to_dict's parameter max_faan
  start_date,     \* file_to_dict's parameter start_date
  end_date,       \* file_to_dict's parameter end_date
  start_reached,  \* line 313
  end_exceeded,   \* line 316
  stats_dict,     \* line 319: the dict, as its items in insertion order
  line_num,       \* line 322: the number of the line last read
  line,           \* line 322: the line last read, stripped
  player_list,    \* line 360: <<>> while 'player_list' not in locals()
  num_players,    \* lines 355, 357: 0 while not assigned
  status,         \* "running", "raised" (an exception left the program), "done"
  exception,      \* the exception that left the program
  stats_csv,      \* line 153: dict_to_csv's rows, the heading left out
  last_names_line,\* history: the last line of the input that names players
  last_date_line, \* history: the last date line of the input
  args,           \* the pure-function specifications: the call's arguments
  ret             \* the pure-function specifications: <<>> or <<result>>

vars == <<max_faan, start_date, end_date, start_reached, end_exceeded,
          stats_dict, line_num, line, player_list, num_players, status,
          exception, stats_csv, last_names_line, last_date_line, args, ret>>

fileVars == <<max_faan, start_date, end_date, start_reached, end_exceeded,
              stats_dict, line_num, line, player_list, num_players, status,
              exception, stats_csv, last_names_line, last_date_line>>

(***************************************************************************)
(* Program constants.                                                      *)
(***************************************************************************)
DEFAULT_MAX_FAAN == 8
DEFAULT_START_DATE == 0
DEFAULT_END_DATE == 100000000

(***************************************************************************)
(* Characters and strings.                                                 *)
(***************************************************************************)
Digits == {"0", "1", "2", "3", "4", "5", "6", "7", "8", "9"}

DigitValue(c) ==
  CASE c = "0" -> 0 [] c = "1" -> 1 [] c = "2" -> 2 [] c = "3" -> 3
    [] c = "4" -> 4 [] c = "5" -> 5 [] c = "6" -> 6 [] c = "7" -> 7
    [] c = "8" -> 8 [] c = "9" -> 9

\* The code point of a character: Python compares strings by code point.
CodePoint(c) ==
  CASE c \in Digits -> 48 + DigitValue(c)
    [] c = "," -> 44 [] c = "-" -> 45
    [] c = "A" -> 65 [] c = "B" -> 66 [] c = "C" -> 67 [] c = "D" -> 68
    [] c = "d" -> 100 [] c = "f" -> 102 [] c = "t" -> 116

\* str.isdigit(): non-empty and every character a digit.
isdigit(s) == Len(s) > 0 /\ \A i \in 1..Len(s) : s[i] \in Digits

\* s[:n]
Prefix(s, n) == SubSeq(s, 1, IF Len(s) < n THEN Len(s) ELSE n)

\* int(s) of a string of digits.
RECURSIVE int(_)
int(s) ==
  IF Len(s) = 0 THEN 0
  ELSE 10 * int(SubSeq(s, 1, Len(s) - 1)) + DigitValue(s[Len(s)])

\* s < t for strings, as Python compares them.
RECURSIVE StrLess(_, _)
StrLess(s, t) ==
  IF Len(t) = 0 THEN FALSE
  ELSE IF Len(s) = 0 THEN TRUE
  ELSE IF CodePoint(s[1]) # CodePoint(t[1])
       THEN CodePoint(s[1]) < CodePoint(t[1])
  ELSE StrLess(Tail(s), Tail(t))

\* list.count(x)
RECURSIVE count(_, _)
count(list, x) ==
  IF Len(list) = 0 THEN 0
  ELSE (IF list[1] = x THEN 1 ELSE 0) + count(Tail(list), x)

\* list.index(x), 1-based, for an x that occurs.
index(list, x) ==
  CHOOSE i \in 1..Len(list) :
    list[i] = x /\ \A j \in 1..(i - 1) : list[j] # x

RECURSIVE SumSeq(_)
SumSeq(s) == IF Len(s) = 0 THEN 0 ELSE s[1] + SumSeq(Tail(s))

RECURSIVE Pow2(_)
Pow2(n) == IF n <= 0 THEN 1 ELSE 2 * Pow2(n - 1)

(***************************************************************************)
(* base_amount                                                             *)
(***************************************************************************)
base_amount_off_by_one(faan) ==
  IF faan <= 5 THEN Pow2(faan)
  ELSE IF faan % 2 = 1 THEN 24 * Pow2((faan - 5) \div 2)
  ELSE 32 * Pow2((faan - 6) \div 2)

base_amount(faan) ==
  IF faan <= 4 THEN Pow2(faan)
  ELSE IF faan % 2 = 1 THEN 24 * Pow2((faan - 5) \div 2)
  ELSE 32 * Pow2((faan - 6) \div 2)

(***************************************************************************)
(* The two regular expressions of file_to_dict, on a stripped line given   *)
(* as its tokens.  \s+ separates tokens, so a line matches when it has 3   *)
(* or 4 tokens (the fourth group is optional) and every token matches the  *)
(* group's pattern.                                                        *)
(***************************************************************************)
\* name_pattern ([^0-9\s,\-][^\s,\-]*); a token holds no whitespace.
name_pattern(tok) ==
  /\ Len(tok) >= 1
  /\ tok[1] \notin Digits \cup {",", "-"}
  /\ \A i \in 2..Len(tok) : tok[i] \notin {",", "-"}

\* spec_pattern ([0-9]+|[dtf\-])
spec_pattern(tok) ==
  \/ isdigit(tok)
  \/ Len(tok) = 1 /\ tok[1] \in {"d", "t", "f", "-"}

names_regex_match(l) ==
  Len(l) \in {3, 4} /\ \A i \in 1..Len(l) : name_pattern(l[i])

game_regex_match(l) ==
  Len(l) \in {3, 4} /\ \A i \in 1..Len(l) : spec_pattern(l[i])

\* line.isdigit() of line 332: one token, all digits.
line_isdigit(l) == Len(l) = 1 /\ isdigit(l[1])

(***************************************************************************)
(* cap_faan and parse_spec_list.  parse_spec_list's result is a record:    *)
(* kind "return" with the two lists, kind "raise" with raise_exception's   *)
(* message, or kind "None" when control reaches the end of the function    *)
(* body without a return statement.                                        *)
(***************************************************************************)
Min(a, b) == IF a < b THEN a ELSE b

cap_faan_uncapped(faan, maxf) == int(faan)

cap_faan(faan, maxf) == Min(maxf, int(faan))

Returned(wl, nl) ==
  [kind |-> "return", win_list |-> wl, net_score_list |-> nl, message |-> ""]

Raised(msg) ==
  [kind |-> "raise", win_list |-> <<>>, net_score_list |-> <<>>, message |-> msg]

ReturnedNone ==
  [kind |-> "None", win_list |-> <<>>, net_score_list |-> <<>>, message |-> ""]

\* Line 219: [spec.isdigit() for spec in spec_list]
is_integer_list(spec_list) ==
  [n \in 1..Len(spec_list) |-> isdigit(spec_list[n])]

Hyphen == <<"-">>
Spec_d == <<"d">>
Spec_t == <<"t">>
Spec_f == <<"f">>

\* Lines 239 to 245: the false win.
false_win(spec_list, N, maxf) ==
  LET false_index == index(spec_list, Spec_f)
  IN  Returned(
        [n \in 1..N |-> 0],
        [n \in 1..N |->
           IF n = false_index THEN -2 * (N - 1) * base_amount(maxf)
           ELSE 2 * base_amount(maxf)])

\* Lines 252 to 264: the self-drawn win.
self_drawn_win(spec_list, N, maxf) ==
  LET winner_index == index(is_integer_list(spec_list), TRUE)
      winning_faan == cap_faan(spec_list[winner_index], maxf)
  IN  Returned(
        [n \in 1..N |-> IF n = winner_index THEN 1 ELSE 0],
        [n \in 1..N |->
           IF n = winner_index THEN 2 * (N - 1) * base_amount(winning_faan)
           ELSE -2 * base_amount(winning_faan)])

discarded_win_double_portion(spec_list, N, maxf) ==
  LET winner_index == index(is_integer_list(spec_list), TRUE)
      winning_faan == cap_faan(spec_list[winner_index], maxf)
      discarding_index == index(spec_list, Spec_d)
  IN  Returned(
        [n \in 1..N |-> IF n = winner_index THEN 1 ELSE 0],
        [n \in 1..N |->
           IF n = discarding_index THEN -2 * base_amount(winning_faan)
           ELSE IF n = winner_index THEN N * base_amount(winning_faan)
           ELSE 0])

\* Lines 276 to 286: the discarded win.  The discarder's entry is assigned
\* after the winner's; the two indices differ.
discarded_win(spec_list, N, maxf) ==
  LET winner_index == index(is_integer_list(spec_list), TRUE)
      winning_faan == cap_faan(spec_list[winner_index], maxf)
      discarding_index == index(spec_list, Spec_d)
  IN  Returned(
        [n \in 1..N |-> IF n = winner_index THEN 1 ELSE 0],
        [n \in 1..N |->
           IF n = discarding_index THEN -N * base_amount(winning_faan)
           ELSE IF n = winner_index THEN N * base_amount(winning_faan)
           ELSE 0])

\* Lines 293 to 303: taking on all losses for a self-drawn win.
taken_on_win(spec_list, N, maxf) ==
  LET winner_index == index(is_integer_list(spec_list), TRUE)
      winning_faan == cap_faan(spec_list[winner_index], maxf)
      taking_on_index == index(spec_list, Spec_t)
  IN  Returned(
        [n \in 1..N |-> IF n = winner_index THEN 1 ELSE 0],
        [n \in 1..N |->
           IF n = taking_on_index
           THEN -2 * (N - 1) * base_amount(winning_faan)
           ELSE IF n = winner_index
           THEN 2 * (N - 1) * base_amount(winning_faan)
           ELSE 0])

parse_spec_list(spec_list, N, maxf) ==
  LET hyphen_count == count(spec_list, Hyphen)
      integer_count == count(is_integer_list(spec_list), TRUE)
  IN  IF hyphen_count = N
      THEN Returned([n \in 1..N |-> 0], [n \in 1..N |-> 0])
      ELSE IF hyphen_count = N - 1 /\ count(spec_list, Spec_f) = 1
      THEN false_win(spec_list, N, maxf)
      ELSE IF hyphen_count = N - 1 /\ integer_count = 1
      THEN self_drawn_win(spec_list, N, maxf)
      ELSE IF hyphen_count = N - 2
      THEN IF integer_count = 1 /\ count(spec_list, Spec_d) = 1
           THEN discarded_win(spec_list, N, maxf)
           ELSE IF integer_count = 1 /\ count(spec_list, Spec_t) = 1
           THEN taken_on_win(spec_list, N, maxf)
           ELSE Raised("does not properly specify a game")
      ELSE ReturnedNone

(***************************************************************************)
(* The dictionary of statistics: its items, in insertion order.            *)
(***************************************************************************)
Players(sd) == {sd[i].player : i \in 1..Len(sd)}

\* Lines 64 to 67.
add_player(sd, player) ==
  IF player \in Players(sd) THEN sd
  ELSE Append(sd, [player |-> player, games_played |-> 0,
                   games_won |-> 0, net_score |-> 0])

\* Lines 367, 368: for player in player_list: add_player(stats_dict, player)
RECURSIVE add_players(_, _)
add_players(sd, pl) ==
  IF Len(pl) = 0 THEN sd
  ELSE add_players(add_player(sd, pl[1]), Tail(pl))

has_duplicates_adjacent_only(pl) ==
  \E i \in 1..(Len(pl) - 1) : pl[i] = pl[i + 1]

\* Line 363: len(player_list) != len(set(player_list))
has_duplicates(pl) ==
  Len(pl) # Cardinality({pl[i] : i \in 1..Len(pl)})

\* Lines 401 to 404, for one player.
update_player(sd, player, win, net) ==
  [i \in 1..Len(sd) |->
     IF sd[i].player = player
     THEN [sd[i] EXCEPT !.games_played = @ + 1,
                        !.games_won = @ + win,
                        !.net_score = @ + net]
     ELSE sd[i]]

\* Lines 400 to 404: for n, player in enumerate(player_list), from n on.
RECURSIVE update_players(_, _, _, _, _)
update_players(sd, pl, win_list, net_score_list, n) ==
  IF n > Len(pl) THEN sd
  ELSE update_players(
         update_player(sd, pl[n], win_list[n], net_score_list[n]),
         pl, win_list, net_score_list, n + 1)

(***************************************************************************)
(* Exceptions.  raise_exception's message names the current line and the   *)
(* file; a TypeError or a ZeroDivisionError raised by the interpreter      *)
(* carries neither.                                                        *)
(***************************************************************************)
NoException == [type |-> "none", message |-> "", line_num |-> 0]

\* Lines 182 to 184.
raise_exception(n, msg) ==
  [type |-> "Exception", message |-> msg, line_num |-> n]

TypeError == [type |-> "TypeError", message |-> "", line_num |-> 0]

ZeroDivisionError ==
  [type |-> "ZeroDivisionError", message |-> "", line_num |-> 0]

start_reached_exclusive(yyyymmdd, start) == yyyymmdd > start

\* Line 338.
start_reached_after(yyyymmdd, start) == yyyymmdd >= start

\* Line 341.
end_exceeded_after(yyyymmdd, end) == yyyymmdd > end

size_mismatch_too_few_only(np, ns) == ns < np

\* Line 388: num_players != num_specs
size_mismatch(np, ns) == np # ns

\* Line 378: 'player_list' not in locals()
players_unspecified(pl) == pl = <<>>

(***************************************************************************)
(* One pass of the loop of lines 322 to 415, on the next line l of the     *)
(* file.  limit bounds the length of the file.                             *)
(***************************************************************************)
ProcessLine(l, limit) ==
  /\ status = "running"
  /\ line_num < limit
  /\ line_num' = line_num + 1
  /\ line' = l
  /\ last_names_line' = IF names_regex_match(l) THEN l ELSE last_names_line
  /\ last_date_line' = IF line_isdigit(l) THEN l ELSE last_date_line
  /\ UNCHANGED <<max_faan, start_date, end_date, stats_csv, args, ret>>
  /\ IF line_isdigit(l)
     THEN LET yyyymmdd == int(Prefix(l[1], 8))
          IN  /\ start_reached' = start_reached_after(yyyymmdd, start_date)
              /\ end_exceeded' = end_exceeded_after(yyyymmdd, end_date)
              /\ UNCHANGED <<stats_dict, player_list, num_players,
                             status, exception>>
     ELSE IF ~(start_reached /\ ~end_exceeded)
     THEN UNCHANGED <<start_reached, end_exceeded, stats_dict, player_list,
                      num_players, status, exception>>
     ELSE IF names_regex_match(l)
     THEN /\ num_players' = Len(l)
          /\ player_list' = l
          /\ UNCHANGED <<start_reached, end_exceeded>>
          /\ IF has_duplicates(l)
             THEN /\ status' = "raised"
                  /\ exception' =
                       raise_exception(line_num + 1, "duplicate player")
                  /\ UNCHANGED stats_dict
             ELSE /\ stats_dict' = add_players(stats_dict, l)
                  /\ UNCHANGED <<status, exception>>
     ELSE IF game_regex_match(l)
     THEN /\ UNCHANGED <<start_reached, end_exceeded, player_list,
                         num_players>>
          /\ IF players_unspecified(player_list)
             THEN /\ status' = "raised"
                  /\ exception' =
                       raise_exception(line_num + 1,
                         "players must be specified before a game")
                  /\ UNCHANGED stats_dict
             ELSE IF size_mismatch(num_players, Len(l))
             THEN /\ status' = "raised"
                  /\ exception' =
                       raise_exception(line_num + 1,
                         "{num_specs} scores given for {num_players} players")
                  /\ UNCHANGED stats_dict
             ELSE LET \* line 394: groups 1 to num_players
                      spec_list == Prefix(l, num_players)
                      parsed == parse_spec_list(spec_list, num_players,
                                                max_faan)
                  IN  IF parsed.kind = "return"
                      THEN /\ stats_dict' =
                                update_players(stats_dict, player_list,
                                  parsed.win_list, parsed.net_score_list, 1)
                           /\ UNCHANGED <<status, exception>>
                      ELSE IF parsed.kind = "raise"
                      THEN /\ status' = "raised"
                           /\ exception' =
                                raise_exception(line_num + 1, parsed.message)
                           /\ UNCHANGED stats_dict
                      ELSE \* line 397 unpacks None
                           /\ status' = "raised"
                           /\ exception' = TypeError
                           /\ UNCHANGED stats_dict
     ELSE IF l # <<>>
     THEN /\ status' = "raised"
          /\ exception' =
               raise_exception(line_num + 1,
                 "does not properly specify one of date, players or game")
          /\ UNCHANGED <<start_reached, end_exceeded, stats_dict,
                         player_list, num_players>>
     ELSE UNCHANGED <<start_reached, end_exceeded, stats_dict, player_list,
                      num_players, status, exception>>

(***************************************************************************)
(* dict_to_csv.  A rate is a float in the code; here games_won_pc is the   *)
(* integer round() gives and net_score_avg is counted in tenths.  Python's *)
(* round() rounds a tie to the even neighbour; the quotients of the games  *)
(* counted here are exact in binary or far from a tie.                     *)
(***************************************************************************)
\* round(num / den) for den > 0, ties to even.
RoundHalfEven(num, den) ==
  LET q == num \div den
      r == num - q * den
  IN  IF 2 * r < den THEN q
      ELSE IF 2 * r > den THEN q + 1
      ELSE IF q % 2 = 0 THEN q ELSE q + 1

sort_key_less_ascending_score(a, b) ==
  \/ a.net_score < b.net_score
  \/ a.net_score = b.net_score /\ StrLess(a.player, b.player)

\* Line 142: key = lambda x: (-x[1]['net_score'], x[0]), tuples compared
\* in lexicographic order.
sort_key_less(a, b) ==
  \/ -a.net_score < -b.net_score
  \/ -a.net_score = -b.net_score /\ StrLess(a.player, b.player)

\* sorted() is stable: x goes after every item that is not greater.
RECURSIVE insert_sorted(_, _)
insert_sorted(sorted, x) ==
  IF Len(sorted) = 0 THEN <<x>>
  ELSE IF sort_key_less(x, sorted[Len(sorted)])
       THEN Append(insert_sorted(SubSeq(sorted, 1, Len(sorted) - 1), x),
                   sorted[Len(sorted)])
  ELSE Append(sorted, x)

\* Lines 139 to 144.
RECURSIVE sorted_items(_)
sorted_items(items) ==
  IF Len(items) = 0 THEN <<>>
  ELSE insert_sorted(sorted_items(SubSeq(items, 1, Len(items) - 1)),
                     items[Len(items)])

\* Lines 134, 135 and 149, 150 and 157 to 159: one player's row.
csv_row(p) ==
  [player |-> p.player,
   games_played |-> p.games_played,
   games_won |-> p.games_won,
   net_score |-> p.net_score,
   games_won_pc |-> RoundHalfEven(p.games_won * 100, p.games_played),
   net_score_avg_tenths |-> RoundHalfEven(p.net_score * 10, p.games_played)]

\* Lines 132 to 135 divide by games_played for every player.
divides_by_zero(sd) == \E i \in 1..Len(sd) : sd[i].games_played = 0

\* Lines 123 to 161, for a dictionary in which no division faults.
dict_to_csv(sd) ==
  LET s == sorted_items(sd)
  IN  [i \in 1..Len(s) |-> csv_row(s[i])]

(***************************************************************************)
(* The end of the file: file_to_dict returns (line 417) and main calls     *)
(* dict_to_csv (line 453).                                                 *)
(***************************************************************************)
Report ==
  /\ status = "running"
  /\ IF divides_by_zero(stats_dict)
     THEN /\ status' = "raised"
          /\ exception' = ZeroDivisionError
          /\ UNCHANGED stats_csv
     ELSE /\ status' = "done"
          /\ stats_csv' = dict_to_csv(stats_dict)
          /\ UNCHANGED exception
  /\ UNCHANGED <<max_faan, start_date, end_date, start_reached,
                 end_exceeded, stats_dict, line_num, line, player_list,
                 num_players, last_names_line, last_date_line, args, ret>>

(***************************************************************************)
(* The inputs.                                                             *)
(***************************************************************************)
MaxLines == 2          \* the length of a file, under Spec
MaxWindowLines == 5    \* the length of a file, under SpecWindow
MaxFaanArg == 49       \* base_amount's largest argument, under SpecBase

A == <<"A">>
B == <<"B">>
C == <<"C">>
D == <<"D">>
AB == <<"A", "B">>
Faan5 == <<"5">>

Seqs3(S) == {<<a, b, c>> : a \in S, b \in S, c \in S}
Seqs4(S) == {<<a, b, c, d>> : a \in S, b \in S, c \in S, d \in S}

\* -m: a maximum below the faan of the files' wins, and the default.
MaxFaans == {3, DEFAULT_MAX_FAAN}

\* -s and -e: the defaults, and the year 2020.
Windows == {<<DEFAULT_START_DATE, DEFAULT_END_DATE>>, <<20200101, 20201231>>}

\* Date lines: before the year, its first day, its last day followed by
\* extra digits, after the year, and fewer than 8 digits.
Date_before == <<"2", "0", "1", "9", "1", "2", "3", "1">>
Date_first == <<"2", "0", "2", "0", "0", "1", "0", "1">>
Date_last_extra == <<"2", "0", "2", "0", "1", "2", "3", "1", "9", "9">>
Date_after == <<"2", "0", "2", "1", "0", "1", "0", "1">>
Date_short == <<"7">>

DateLines ==
  {<<Date_before>>, <<Date_first>>, <<Date_last_extra>>, <<Date_after>>,
   <<Date_short>>}

\* Scoring lines over -, d, t, f and 5: every line of 3, every line of 4
\* with at least 2 hyphens (a line of 4 with fewer is no game whatever its
\* other specifications are), and four lines of 4 with fewer.
DealTokens == {Hyphen, Spec_d, Spec_t, Spec_f, Faan5}
DealLines ==
  Seqs3(DealTokens) \cup
  {l \in Seqs4(DealTokens) : count(l, Hyphen) >= 2} \cup
  {<<Faan5, Faan5, Faan5, Faan5>>, <<Faan5, Spec_d, Spec_t, Hyphen>>,
   <<Spec_d, Spec_t, Spec_f, Faan5>>, <<Spec_d, Spec_d, Spec_t, Spec_f>>}

\* Every line of 3 names over A, B, C, and the lines of 4 names over
\* A, B, C, D that start with A and go on with A or B.
RosterLines ==
  Seqs3({A, B, C}) \cup
  {l \in Seqs4({A, B, C, D}) : l[1] = A /\ l[2] \in {A, B}}

\* The empty line, and lines that are no date, players or game.
OtherLines ==
  {<<>>, <<A>>, <<A, B>>, <<A, Hyphen, Faan5>>, <<Hyphen, Hyphen>>,
   <<A, B, C, D, A>>, <<Faan5, Hyphen, Hyphen, Hyphen, Hyphen>>}

Lines == DateLines \cup RosterLines \cup DealLines \cup OtherLines

\* The lines of the longer files of SpecWindow: the date lines, lines of
\* names over A, B, C and AB, and a deal of each category.
WindowLines ==
  DateLines \cup
  {<<C, A, B>>, <<B, AB, C>>, <<A, B, C, AB>>, <<A, B, A>>,
   <<Hyphen, Hyphen, Hyphen>>, <<Faan5, Hyphen, Hyphen>>,
   <<Hyphen, Spec_d, Faan5>>, <<Spec_f, Hyphen, Hyphen>>,
   <<Hyphen, Spec_d, Hyphen>>, <<Faan5, Hyphen, Hyphen, Hyphen>>,
   <<Hyphen, Hyphen, Spec_t, Faan5>>}

(***************************************************************************)
(* The processing of a file: Spec, and SpecWindow for longer files over    *)
(* fewer lines.                                                            *)
(***************************************************************************)
Init ==
  /\ max_faan \in MaxFaans
  /\ \E w \in Windows : start_date = w[1] /\ end_date = w[2]
  /\ start_reached = TRUE
  /\ end_exceeded = FALSE
  /\ stats_dict = <<>>
  /\ line_num = 0
  /\ line = <<>>
  /\ player_list = <<>>
  /\ num_players = 0
  /\ status = "running"
  /\ exception = NoException
  /\ stats_csv = <<>>
  /\ last_names_line = <<>>
  /\ last_date_line = <<>>
  /\ args = <<>>
  /\ ret = <<>>

ReadLine == \E l \in Lines : ProcessLine(l, MaxLines)

Next == ReadLine \/ Report

Spec == Init /\ [][Next]_vars

ReadWindowLine == \E l \in WindowLines : ProcessLine(l, MaxWindowLines)

NextWindow == ReadWindowLine \/ Report

SpecWindow == Init /\ [][NextWindow]_vars

(***************************************************************************)
(* The pure functions, each applied to arguments drawn at the start.       *)
(***************************************************************************)
Idle ==
  /\ max_faan = 0
  /\ start_date = 0
  /\ end_date = 0
  /\ start_reached = TRUE
  /\ end_exceeded = FALSE
  /\ stats_dict = <<>>
  /\ line_num = 0
  /\ line = <<>>
  /\ player_list = <<>>
  /\ num_players = 0
  /\ status = "idle"
  /\ exception = NoException
  /\ stats_csv = <<>>
  /\ last_names_line = <<>>
  /\ last_date_line = <<>>

InitBase ==
  /\ Idle
  /\ \E f \in 0..MaxFaanArg : args = [faan |-> f]
  /\ ret = <<>>

CallBaseAmount ==
  /\ ret = <<>>
  /\ ret' = <<base_amount(args.faan)>>
  /\ UNCHANGED <<args, fileVars>>

NextBase == CallBaseAmount

SpecBase == InitBase /\ [][NextBase]_vars

\* Scoring specifications: -, d, t, f, and the integers 0, 5, 08 and 12.
SettleTokens ==
  {Hyphen, Spec_d, Spec_t, Spec_f, <<"0">>, Faan5, <<"0", "8">>, <<"1", "2">>}

SettleMaxFaans == {0, 3, DEFAULT_MAX_FAAN}

InitSettle ==
  /\ Idle
  /\ \E sl \in Seqs3(SettleTokens) \cup Seqs4(SettleTokens) :
       \E m \in SettleMaxFaans :
         args = [spec_list |-> sl, num_players |-> Len(sl), max_faan |-> m]
  /\ ret = <<>>

CallParseSpecList ==
  /\ ret = <<>>
  /\ ret' = <<parse_spec_list(args.spec_list, args.num_players,
                              args.max_faan)>>
  /\ UNCHANGED <<args, fileVars>>

NextSettle == CallParseSpecList

SpecSettle == InitSettle /\ [][NextSettle]_vars

(***************************************************************************)
(* The vocabulary of the properties: the five deal categories, stated on   *)
(* the scoring specifications alone.                                       *)
(***************************************************************************)
Slots(sl, tok) == {n \in 1..Len(sl) : sl[n] = tok}
IntegerSlots(sl) == {n \in 1..Len(sl) : isdigit(sl[n])}
RestHyphens(sl, k) == Cardinality(Slots(sl, Hyphen)) = Len(sl) - k

IsDraw(sl) == RestHyphens(sl, 0)
IsFalseWin(sl) == Cardinality(Slots(sl, Spec_f)) = 1 /\ RestHyphens(sl, 1)
IsSelfDrawnWin(sl) == Cardinality(IntegerSlots(sl)) = 1 /\ RestHyphens(sl, 1)
IsDiscardedWin(sl) ==
  /\ Cardinality(IntegerSlots(sl)) = 1
  /\ Cardinality(Slots(sl, Spec_d)) = 1
  /\ RestHyphens(sl, 2)
IsTakenOnSelfDrawnWin(sl) ==
  /\ Cardinality(IntegerSlots(sl)) = 1
  /\ Cardinality(Slots(sl, Spec_t)) = 1
  /\ RestHyphens(sl, 2)

HasCategory(sl) ==
  \/ IsDraw(sl) \/ IsFalseWin(sl) \/ IsSelfDrawnWin(sl)
  \/ IsDiscardedWin(sl) \/ IsTakenOnSelfDrawnWin(sl)

TheSlot(S) == CHOOSE n \in S : TRUE

\* A line of scoring specifications that is not also a line of names.
IsDealLine(l) == game_regex_match(l) /\ ~names_regex_match(l)

HasRepeat(l) == \E i \in 1..Len(l) : \E j \in 1..Len(l) : i < j /\ l[i] = l[j]

\* The window, from the last date line of the input.
InWindowByDate ==
  \/ last_date_line = <<>>
  \/ LET d == int(Prefix(last_date_line[1], 8))
     IN  start_date <= d /\ d <= end_date

NetScoreSum(sd) == SumSeq([i \in 1..Len(sd) |-> sd[i].net_score])

(***************************************************************************)
(* C1. Zero-sum: the net-score deltas parse_spec_list returns for a line   *)
(* of the file sum to 0, for 3 and for 4 players, and after any lines      *)
(* processed the net scores of all players in stats_dict sum to 0.         *)
(***************************************************************************)
C1_ZeroSum ==
  /\ NetScoreSum(stats_dict) = 0
  /\ game_regex_match(line) =>
       LET parsed == parse_spec_list(line, Len(line), max_faan)
       IN  parsed.kind = "return" =>
             /\ Len(parsed.net_score_list) = Len(line)
             /\ SumSeq(parsed.net_score_list) = 0

\* A discarded win among 4 players has been folded into the statistics.
C1_Witness ==
  /\ status = "running"
  /\ Len(line) = 4
  /\ IsDiscardedWin(line)
  /\ \E i \in 1..Len(stats_dict) : stats_dict[i].net_score > 0
  /\ \E i \in 1..Len(stats_dict) : stats_dict[i].net_score < 0

(***************************************************************************)
(* C2. Settlement formulas: with B the base amount of the capped faan,     *)
(* parse_spec_list returns, for a draw, all flags 0 and all deltas 0; for  *)
(* a self-drawn win, the winner's flag 1 and +2(N-1)B, -2B for every other *)
(* slot; for a discarded win, the winner's flag 1 and +NB, -NB for the     *)
(* discarder, 0 elsewhere; for a taken-on self-drawn win, the winner's     *)
(* flag 1 and +2(N-1)B, -2(N-1)B for the taking-on slot, 0 elsewhere; for  *)
(* a false win, all flags 0, -2(N-1)B(max_faan) for the false winner and   *)
(* +2B(max_faan) for every other slot.  A faan above max_faan settles as   *)
(* max_faan does.                                                          *)
(***************************************************************************)
C2_Settlement ==
  ret # <<>> =>
    LET r == ret[1]
        sl == args.spec_list
        N == args.num_players
        m == args.max_faan
        w == TheSlot(IntegerSlots(sl))
        faan == int(sl[w])
        Bw == base_amount(IF faan > m THEN m ELSE faan)
        Bm == base_amount(m)
        flags == [n \in 1..N |-> IF n = w THEN 1 ELSE 0]
        noflags == [n \in 1..N |-> 0]
    IN  /\ IsDraw(sl) =>
             r = Returned(noflags, [n \in 1..N |-> 0])
        /\ IsFalseWin(sl) =>
             r = Returned(noflags,
                   [n \in 1..N |->
                      IF n = TheSlot(Slots(sl, Spec_f))
                      THEN -2 * (N - 1) * Bm ELSE 2 * Bm])
        /\ IsSelfDrawnWin(sl) =>
             r = Returned(flags,
                   [n \in 1..N |->
                      IF n = w THEN 2 * (N - 1) * Bw ELSE -2 * Bw])
        /\ IsDiscardedWin(sl) =>
             r = Returned(flags,
                   [n \in 1..N |->
                      IF n = w THEN N * Bw
                      ELSE IF n = TheSlot(Slots(sl, Spec_d)) THEN -N * Bw
                      ELSE 0])
        /\ IsTakenOnSelfDrawnWin(sl) =>
             r = Returned(flags,
                   [n \in 1..N |->
                      IF n = w THEN 2 * (N - 1) * Bw
                      ELSE IF n = TheSlot(Slots(sl, Spec_t))
                      THEN -2 * (N - 1) * Bw
                      ELSE 0])

\* A discarded win of 12 faan among 4 players, capped at 8: 4 * 64.
C2_Witness ==
  /\ ret # <<>>
  /\ args.max_faan = 8
  /\ args.spec_list = <<Hyphen, <<"1", "2">>, Hyphen, Spec_d>>
  /\ ret[1].net_score_list = <<0, 256, 0, -256>>

(***************************************************************************)
(* C3. A line of N scoring specifications that has none of the five        *)
(* categories (and is not a line of names as well), read in the window     *)
(* when N players are specified, ends in the exception of raise_exception, *)
(* which names the line, and leaves stats_dict as it was.                  *)
(***************************************************************************)
C3_UnclassifiableRejected ==
  [][ ( /\ line_num' = line_num + 1
        /\ start_reached /\ ~end_exceeded
        /\ IsDealLine(line')
        /\ player_list # <<>>
        /\ Len(line') = Len(player_list)
        /\ ~HasCategory(line') )
      => /\ status' = "raised"
         /\ exception'.type = "Exception"
         /\ exception'.line_num = line_num'
         /\ stats_dict' = stats_dict ]_vars

(***************************************************************************)
(* C4. The report of a dictionary in which a player has played no game     *)
(* does not end in a division by zero.                                     *)
(***************************************************************************)
C4_ZeroGamesGuarded == exception.type # "ZeroDivisionError"

(***************************************************************************)
(* C5. A line of 3 or 4 names read in the window in which a name occurs    *)
(* more than once ends in the 'duplicate player' exception and leaves      *)
(* stats_dict as it was.                                                   *)
(***************************************************************************)
C5_DuplicateRosterRejected ==
  [][ ( /\ line_num' = line_num + 1
        /\ start_reached /\ ~end_exceeded
        /\ names_regex_match(line')
        /\ HasRepeat(line') )
      => /\ status' = "raised"
         /\ exception' = [type |-> "Exception",
                          message |-> "duplicate player",
                          line_num |-> line_num']
         /\ stats_dict' = stats_dict ]_vars

\* A line of 4 names with a repeat was rejected after players were added.
C5_Witness ==
  /\ exception.message = "duplicate player"
  /\ Len(line) = 4
  /\ line[2] = line[4]
  /\ Len(stats_dict) = 3

(***************************************************************************)
(* C6. A line of scoring specifications read in the window when no players *)
(* are specified, or when their number differs from the number of          *)
(* specifications, ends in an exception and leaves stats_dict as it was.   *)
(***************************************************************************)
C6_DealPreconditions ==
  [][ ( /\ line_num' = line_num + 1
        /\ start_reached /\ ~end_exceeded
        /\ IsDealLine(line')
        /\ (player_list = <<>> \/ Len(line') # Len(player_list)) )
      => /\ status' = "raised"
         /\ exception'.type # "none"
         /\ stats_dict' = stats_dict ]_vars

\* 4 specifications were given for 3 players who had played.
C6_Witness ==
  /\ status = "raised"
  /\ exception.message = "{num_specs} scores given for {num_players} players"
  /\ Len(line) = 4
  /\ Len(player_list) = 3
  /\ \E i \in 1..Len(stats_dict) : stats_dict[i].games_played > 0

(***************************************************************************)
(* C7. base_amount(0..10) is 1, 2, 4, 8, 16, 24, 32, 48, 64, 96, 128, and  *)
(* base_amount(f) <= base_amount(f + 1); base_amount(f) is 2^f up to 4,    *)
(* 3 * 2^((f + 1) div 2) for odd f above, 2^((f + 4) div 2) for even f.    *)
(***************************************************************************)
C7_BaseAmountTable ==
  ret # <<>> =>
    LET f == args.faan
        table == <<1, 2, 4, 8, 16, 24, 32, 48, 64, 96, 128>>
    IN  /\ f <= 10 => ret[1] = table[f + 1]
        /\ ret[1] <= base_amount(f + 1)
        /\ ret[1] = IF f <= 4 THEN 2 ^ f
                    ELSE IF f % 2 = 1 THEN 3 * 2 ^ ((f + 1) \div 2)
                    ELSE 2 ^ ((f + 4) \div 2)

C7_Witness == ret = <<96>> /\ args.faan = 9

C9_RosterSupersession ==
  [][ ( /\ line_num' = line_num + 1
        /\ IsDealLine(line')
        /\ stats_dict' # stats_dict
        /\ ~HasRepeat(last_names_line) )
      => /\ player_list = last_names_line
         /\ Len(line') = Len(last_names_line) ]_vars

(***************************************************************************)
(* C10. A deal line that has a category, read when as many players are     *)
(* specified, is folded into the statistics if and only if no date line    *)
(* has been read or the first 8 digits d of the last one have              *)
(* start_date <= d <= end_date; outside the window a deal line changes     *)
(* nothing.                                                                *)
(***************************************************************************)
Folded(l) ==
  /\ status' = "running"
  /\ Len(stats_dict') = Len(stats_dict)
  /\ \A i \in 1..Len(stats_dict) :
       /\ stats_dict'[i].player = stats_dict[i].player
       /\ stats_dict'[i].games_played =
            stats_dict[i].games_played +
            (IF Slots(player_list, stats_dict[i].player) # {} THEN 1 ELSE 0)

C10_DateWindow ==
  [][ ( /\ line_num' = line_num + 1
        /\ IsDealLine(line') )
      => /\ ( /\ InWindowByDate
              /\ Len(line') = Len(player_list)
              /\ HasCategory(line') ) => Folded(line')
         /\ ~InWindowByDate =>
              /\ stats_dict' = stats_dict
              /\ status' = "running" ]_vars

\* A win on the last day of the window, its date followed by extra digits,
\* was folded.
C10_Witness ==
  /\ end_date = 20201231
  /\ last_date_line = <<Date_last_extra>>
  /\ status = "running"
  /\ IsSelfDrawnWin(line)
  /\ \E i \in 1..Len(stats_dict) : stats_dict[i].games_won = 1

====
